---- MODULE Spec2Model ----
(***************************************************************************)
(* Model of the "find the imposter" party game: the Convex mutations of    *)
(* convex/games.ts and convex/players.ts (bundled in convex/schema.ts) and *)
(* the client handlers of the lobby, game and results screens that call    *)
(* them.  The two tables are sequences; a document's id is its position,   *)
(* which is also its creation order (_creationTime).                       *)
(***************************************************************************)
EXTENDS Integers, Sequences, FiniteSets, TLC

VARIABLES
    games,          \* the games table
    players,        \* the players table
    now,            \* the wall clock read by Date.now()
    selectedVotes,  \* the voting screen's selectedVotes state
    timerGame,      \* the game captured by the game screen's timer effect
    shown,          \* the results and outcome the results screen rendered
    lobby,          \* the lobby screen: its selection and handleStartGame
    removals,       \* the removePlayer calls of lobby screens on their way
    card,           \* the game screen's card flags
    loop,           \* the imposter loop of a startGame call in progress
    last            \* the last mutation call: its name, game and outcome

vars == <<games, players, now, selectedVotes, timerGame, shown, lobby,
          removals, card, loop, last>>

\* The state of the screens and of the calls in progress.
client == <<selectedVotes, timerGame, shown, lobby, removals, card, loop>>

(***************************************************************************)
(* Bounds of the model.                                                    *)
(***************************************************************************)
MaxPlayers == 4
MaxImposters == 3
MaxTime == 1
ShortTimerDuration == 1

(***************************************************************************)
(* Optional fields (v.optional): absent is the empty sequence.             *)
(***************************************************************************)
None == <<>>
Some(v) == <<v>>

Range(s) == {s[i] : i \in 1..Len(s)}

Min(a, b) == IF a < b THEN a ELSE b

Max(a, b) == IF a > b THEN a ELSE b

Statuses == {"lobby", "playing", "discussion", "results", "ended"}

(***************************************************************************)
(* The settings the lobby creates a game with.                             *)
(***************************************************************************)
DefaultSettings ==
    [theme |-> "light", language |-> "NL", trollMode |-> FALSE,
     timerEnabled |-> TRUE, timerDuration |-> 300,
     numberOfImposters |-> 1, wordsPerRound |-> 10]

(***************************************************************************)
(* ctx.db.query("players").withIndex("by_game", q => q.eq("gameId", g))    *)
(* .collect(): the ids of the players of game g in index order, which for  *)
(* by_game is creation order.                                              *)
(***************************************************************************)
ByGame(tbl, g) ==
    LET F[i \in 0..Len(tbl)] ==
            IF i = 0 THEN <<>>
            ELSE IF tbl[i].gameId = g THEN Append(F[i - 1], i) ELSE F[i - 1]
    IN F[Len(tbl)]

(***************************************************************************)
(* The same query with .filter(q => q.eq(q.field("isActive"), true)).      *)
(***************************************************************************)
ActiveByGame(tbl, g) ==
    LET F[i \in 0..Len(tbl)] ==
            IF i = 0 THEN <<>>
            ELSE IF tbl[i].gameId = g /\ tbl[i].isActive
                 THEN Append(F[i - 1], i) ELSE F[i - 1]
    IN F[Len(tbl)]

(***************************************************************************)
(* getPlayers: the active players of a game, .order("asc") on by_game.     *)
(***************************************************************************)
getPlayers(g) == ActiveByGame(players, g)

ActiveCount(g) == Len(ActiveByGame(players, g))

(***************************************************************************)
(* The record of a mutation call: op on game g that threw err ("" when it  *)
(* returned), the status of g before the call, and streak: the number of   *)
(* nextPlayer calls that returned since the last startGame that returned   *)
(* with no other call in between (-1 when there is no such run).           *)
(***************************************************************************)
Called(op, g, err) ==
    last' = [op |-> op, game |-> g, err |-> err,
             from |-> IF g \in 1..Len(games) THEN games[g].status ELSE "none",
             streak |->
                 IF op = "startGame" /\ err = "" THEN 0
                 ELSE IF /\ op = "nextPlayer" /\ err = ""
                         /\ last.game = g /\ last.streak >= 0
                      THEN Min(last.streak + 1, MaxPlayers + 1)
                      ELSE -1]

NoCall == [op |-> "none", game |-> 0, err |-> "", from |-> "none",
           streak |-> -1]

(***************************************************************************)
(* addPlayer: the new player's index is the number of player documents of  *)
(* the game, active or not.                                                *)
(***************************************************************************)
AddPlayerNextIndex(g) == Len(ByGame(players, g))

AddPlayer(g, name, color) ==
    /\ Len(players) < MaxPlayers
    /\ players' = Append(players,
                         [gameId |-> g, name |-> name, color |-> color,
                          index |-> AddPlayerNextIndex(g), isActive |-> TRUE])
    /\ Called("addPlayer", g, "")
    /\ UNCHANGED <<games, now>>

(***************************************************************************)
(* updatePlayer: patches the fields supplied (name, color: absent or a     *)
(* value); it does not read the player.                                    *)
(***************************************************************************)
UpdatePlayer(p, name, color) ==
    /\ p \in 1..Len(players)
    /\ players' = [players EXCEPT
          ![p].name = IF name = None THEN @ ELSE name[1],
          ![p].color = IF color = None THEN @ ELSE color[1]]
    /\ Called("updatePlayer", players[p].gameId, "")
    /\ UNCHANGED <<games, now>>

(***************************************************************************)
(* removePlayer: soft delete, then renumber the remaining active players   *)
(* of the game 0..n-1 in query order.                                      *)
(***************************************************************************)
RenumberDescending(tbl, g) ==
    LET remaining == ActiveByGame(tbl, g)
    IN [p \in 1..Len(tbl) |->
          IF \E i \in 1..Len(remaining) : remaining[i] = p
          THEN [tbl[p] EXCEPT !.index =
                   Len(remaining)
                     - (CHOOSE i \in 1..Len(remaining) : remaining[i] = p)]
          ELSE tbl[p]]

RenumberWholeTable(tbl, g) ==
    LET remaining == SelectSeq([i \in 1..Len(tbl) |-> i],
                               LAMBDA i : tbl[i].isActive)
    IN [p \in 1..Len(tbl) |->
          IF \E i \in 1..Len(remaining) : remaining[i] = p
          THEN [tbl[p] EXCEPT !.index =
                   Len(remaining)
                     - (CHOOSE i \in 1..Len(remaining) : remaining[i] = p)]
          ELSE tbl[p]]

Renumber(tbl, g) ==
    LET remaining == ActiveByGame(tbl, g)
    IN [p \in 1..Len(tbl) |->
          IF \E i \in 1..Len(remaining) : remaining[i] = p
          THEN [tbl[p] EXCEPT !.index =
                   (CHOOSE i \in 1..Len(remaining) : remaining[i] = p) - 1]
          ELSE tbl[p]]

RemovePlayer(p) ==
    \/ /\ p \notin 1..Len(players)
       /\ Called("removePlayer", 0, "")
       /\ UNCHANGED <<games, players, now>>
    \/ /\ p \in 1..Len(players)
       /\ players' = Renumber([players EXCEPT ![p].isActive = FALSE],
                              players[p].gameId)
       /\ Called("removePlayer", players[p].gameId, "")
       /\ UNCHANGED <<games, now>>

(***************************************************************************)
(* The categories table: a read-only catalog.  One category has words, one *)
(* has none.                                                               *)
(***************************************************************************)
Catalog ==
    << [name |-> "animals",
        words |-> << [word |-> "cat", hint |-> "pet"],
                     [word |-> "dog", hint |-> "bark"] >>],
       [name |-> "blank", words |-> << >>] >>

CategoryInputs == {<< >>, <<"animals">>, <<"blank">>}

(***************************************************************************)
(* startGame's catalog query and flatMap: the words of every category      *)
(* whose name is one of the selected names, in table order.                *)
(***************************************************************************)
AllWordsCrossed(selected) ==
    LET F[i \in 0..Len(Catalog)] ==
            IF i = 0 THEN <<>>
            ELSE IF Catalog[i].name \in Range(selected)
                 THEN F[i - 1] \o Catalog[i].words ELSE F[i - 1]
        all == F[Len(Catalog)]
    IN [i \in 1..Len(all) |->
          [word |-> all[i].word, hint |-> all[(i % Len(all)) + 1].hint]]

AllWords(selected) ==
    LET F[i \in 0..Len(Catalog)] ==
            IF i = 0 THEN <<>>
            ELSE IF Catalog[i].name \in Range(selected)
                 THEN F[i - 1] \o Catalog[i].words ELSE F[i - 1]
    IN F[Len(Catalog)]

(***************************************************************************)
(* createGame: the inserted document.                                      *)
(***************************************************************************)
NewGame(gameCode, settings) ==
    [status |-> "lobby", currentPlayerIndex |-> 0, currentRound |-> 1,
     totalRounds |-> settings.wordsPerRound, selectedCategories |-> <<>>,
     currentWord |-> None, hintWord |-> None, imposters |-> <<>>,
     settings |-> settings, timerStartTime |-> None, votes |-> None,
     gameCode |-> gameCode]

CreateGame(gameCode, settings) ==
    /\ games' = Append(games, NewGame(gameCode, settings))
    /\ Called("createGame", Len(games) + 1, "")
    /\ UNCHANGED <<players, now>>

UpdateGameSettingsOnly(g, settings) ==
    /\ g \in 1..Len(games)
    /\ games' = [games EXCEPT ![g].settings = settings]
    /\ Called("updateGameSettings", g, "")
    /\ UNCHANGED <<players, now>>

UpdateGameSettings(g, settings) ==
    /\ g \in 1..Len(games)
    /\ games' = [games EXCEPT ![g].settings = settings,
                              ![g].totalRounds = settings.wordsPerRound]
    /\ Called("updateGameSettings", g, "")
    /\ UNCHANGED <<players, now>>

UpdateSelectedCategories(g, categories) ==
    /\ g \in 1..Len(games)
    /\ games' = [games EXCEPT ![g].selectedCategories = categories]
    /\ Called("updateSelectedCategories", g, "")
    /\ UNCHANGED <<players, now>>

(***************************************************************************)
(* The arrays the imposter loop of startGame can end with: each draw is    *)
(* any index in 0..n-1; a drawn index already in the array is dropped and  *)
(* the loop draws again, any other is pushed, until the array has target   *)
(* elements.                                                               *)
(***************************************************************************)
RECURSIVE ImposterLoopNoCheck(_, _, _)
ImposterLoopNoCheck(acc, n, target) ==
    IF Len(acc) >= target THEN {acc}
    ELSE UNION { ImposterLoopNoCheck(Append(acc, d), n, target) :
                    d \in 0..(n - 1) }

RECURSIVE ImposterLoop(_, _, _)
ImposterLoop(acc, n, target) ==
    IF Len(acc) >= target THEN {acc}
    ELSE UNION { IF d \in Range(acc) THEN {}
                 ELSE ImposterLoop(Append(acc, d), n, target) :
                    d \in 0..(n - 1) }

\* Math.min(game.settings.numberOfImposters, players.length - 1)
ImposterTarget(numberOfImposters, n) == Min(numberOfImposters, n - 1)

Failed(op, g, msg) ==
    /\ Called(op, g, msg)
    /\ UNCHANGED <<games, players, now>>

(***************************************************************************)
(* startGame: the guard on the number of active players.                   *)
(***************************************************************************)
EnoughPlayersTwo(n) == ~(n < 2)
EnoughPlayers(n) == ~(n < 3)

(***************************************************************************)
(* startGame: no guard on status.                                          *)
(***************************************************************************)
StartGame(g) ==
    \/ /\ g \notin 1..Len(games)
       /\ Failed("startGame", g, "Game not found")
    \/ /\ g \in 1..Len(games)
       /\ ~EnoughPlayers(ActiveCount(g))
       /\ Failed("startGame", g, "Need at least 3 players to start")
    \/ /\ g \in 1..Len(games)
       /\ EnoughPlayers(ActiveCount(g))
       /\ Len(games[g].selectedCategories) = 0
       /\ Failed("startGame", g, "Select at least one category")
    \/ /\ g \in 1..Len(games)
       /\ EnoughPlayers(ActiveCount(g))
       /\ Len(games[g].selectedCategories) # 0
       /\ Len(AllWords(games[g].selectedCategories)) = 0
       /\ Failed("startGame", g, "No words found in selected categories")
    \/ /\ g \in 1..Len(games)
       /\ EnoughPlayers(ActiveCount(g))
       /\ Len(games[g].selectedCategories) # 0
       /\ LET allWords == AllWords(games[g].selectedCategories)
              n == ActiveCount(g)
              target == ImposterTarget(games[g].settings.numberOfImposters, n)
          IN /\ Len(allWords) # 0
             /\ \E r \in 1..Len(allWords) :
                \E imposterIndices \in ImposterLoop(<<>>, n, target) :
                  games' = [games EXCEPT
                     ![g].status = "playing",
                     ![g].currentPlayerIndex = 0,
                     ![g].currentWord = Some(allWords[r].word),
                     ![g].hintWord = Some(allWords[r].hint),
                     ![g].imposters = imposterIndices,
                     ![g].timerStartTime =
                         IF games[g].settings.timerEnabled THEN Some(now)
                         ELSE None]
       /\ Called("startGame", g, "")
       /\ UNCHANGED <<players, now>>

(***************************************************************************)
(* nextPlayer: whether nextIndex is past the last of n active players.     *)
(***************************************************************************)
PastLastPlayerOffByOne(nextIndex, n) == nextIndex > n
PastLastPlayerEarly(nextIndex, n) == nextIndex + 1 >= n
PastLastPlayer(nextIndex, n) == nextIndex >= n

(***************************************************************************)
(* nextPlayer: no guard on status.                                         *)
(***************************************************************************)
NextPlayer(g) ==
    \/ /\ g \notin 1..Len(games)
       /\ Failed("nextPlayer", g, "Game not found")
    \/ /\ g \in 1..Len(games)
       /\ PastLastPlayer(games[g].currentPlayerIndex + 1, ActiveCount(g))
       /\ games' = [games EXCEPT
             ![g].status = "discussion",
             ![g].timerStartTime =
                 IF games[g].settings.timerEnabled THEN Some(now) ELSE None]
       /\ Called("nextPlayer", g, "")
       /\ UNCHANGED <<players, now>>
    \/ /\ g \in 1..Len(games)
       /\ ~PastLastPlayer(games[g].currentPlayerIndex + 1, ActiveCount(g))
       /\ games' = [games EXCEPT
             ![g].currentPlayerIndex = games[g].currentPlayerIndex + 1]
       /\ Called("nextPlayer", g, "")
       /\ UNCHANGED <<players, now>>

(***************************************************************************)
(* submitVotes: the mapping is stored as given.                            *)
(***************************************************************************)
SubmitVotes(g, votes) ==
    /\ g \in 1..Len(games)
    /\ games' = [games EXCEPT ![g].status = "results",
                              ![g].votes = Some(votes)]
    /\ Called("submitVotes", g, "")
    /\ UNCHANGED <<players, now>>

EndGameStopTimer(g) ==
    /\ g \in 1..Len(games)
    /\ games' = [games EXCEPT ![g].status = "ended",
                              ![g].timerStartTime = None]
    /\ Called("endGame", g, "")
    /\ UNCHANGED <<players, now>>

EndGame(g) ==
    /\ g \in 1..Len(games)
    /\ games' = [games EXCEPT ![g].status = "ended"]
    /\ Called("endGame", g, "")
    /\ UNCHANGED <<players, now>>

(***************************************************************************)
(* resetToLobby: the patch, and the mutation (no guard on status).         *)
(***************************************************************************)
ResetPatchKeepVotes(game) ==
    [game EXCEPT
        !.status = "lobby",
        !.currentPlayerIndex = 0,
        !.currentRound = 1,
        !.currentWord = None,
        !.hintWord = None,
        !.imposters = <<>>,
        !.timerStartTime = None]

ResetPatch(game) ==
    [game EXCEPT
        !.status = "lobby",
        !.currentPlayerIndex = 0,
        !.currentRound = 1,
        !.currentWord = None,
        !.hintWord = None,
        !.imposters = <<>>,
        !.timerStartTime = None,
        !.votes = None]

ResetToLobby(g) ==
    /\ g \in 1..Len(games)
    /\ games' = [games EXCEPT ![g] = ResetPatch(games[g])]
    /\ Called("resetToLobby", g, "")
    /\ UNCHANGED <<players, now>>

(***************************************************************************)
(* Date.now(): the wall clock advances between calls.                      *)
(***************************************************************************)
TickUpTo(limit) ==
    /\ now < limit
    /\ now' = now + 1
    /\ UNCHANGED <<games, players, client, last>>

Tick == TickUpTo(MaxTime)

(***************************************************************************)
(* The voting screen (app/results/[id].tsx).  Its players are the result   *)
(* of getPlayers; selectedVotes maps a voter's id to the position of the   *)
(* accused in that list.                                                   *)
(***************************************************************************)
\* The voting view is rendered unless showResults || game.status === "results";
\* showResults is set once submitVotes has returned, which sets that status.
VotingShown(g) == games[g].status # "results"

HandleVote(g, voterId, votedForIndex) ==
    /\ VotingShown(g)
    /\ selectedVotes' =
          [p \in DOMAIN selectedVotes \cup {voterId} |->
              IF p = voterId THEN votedForIndex ELSE selectedVotes[p]]
    /\ UNCHANGED <<games, players, now, timerGame, shown, lobby, last,
                 removals, card, loop>>

\* players.every(player => selectedVotes[player._id] !== undefined)
AllPlayersVoted(g) ==
    \A p \in Range(getPlayers(g)) : p \in DOMAIN selectedVotes

HandleSubmitVotes(g) ==
    /\ VotingShown(g)
    /\ Cardinality(DOMAIN selectedVotes) >= Len(getPlayers(g))
    /\ AllPlayersVoted(g)
    /\ SubmitVotes(g, selectedVotes)
    /\ UNCHANGED client

(***************************************************************************)
(* The lobby screen's roster handlers.                                     *)
(***************************************************************************)
HandleAddPlayer(g) ==
    /\ AddPlayer(g, "Speler", "#FF6B6B")
    /\ UNCHANGED client

HandleRemovePlayer(g, p) ==
    /\ p \in Range(getPlayers(g))
    /\ ~(Len(getPlayers(g)) <= 3)
    /\ RemovePlayer(p)
    /\ UNCHANGED client

\* The table after k addPlayer calls on game g.
RECURSIVE Roster(_, _)
Roster(g, k) ==
    IF k = 0 THEN <<>>
    ELSE Append(Roster(g, k - 1),
                [gameId |-> g, name |-> "Speler", color |-> "#FF6B6B",
                 index |-> k - 1, isActive |-> TRUE])

NoVotes == [p \in {} |-> 0]

\* useState(false) twice; flippedAt is the currentPlayerIndex the game had
\* when the card was last flipped.
NoCard == [cardWasFlipped |-> FALSE, cardIsCurrentlyFlipped |-> FALSE,
           flippedAt |-> None]

\* No startGame call stands in its imposter loop.
NoLoop == [running |-> FALSE, n |-> 0, numberOfImposters |-> 0,
           imposterIndices |-> <<>>, randomIndex |-> None]

(***************************************************************************)
(* handleRemovePlayer in two steps: the test of the list the screen holds  *)
(* and the call, and the removePlayer mutation the call leads to once it   *)
(* reaches the backend.  Every client of the game has the screen.          *)
(***************************************************************************)
HandleRemovePlayerCall(g, p) ==
    /\ p \in Range(getPlayers(g))
    /\ ~(Len(getPlayers(g)) <= 3)
    /\ p \notin removals
    /\ removals' = removals \cup {p}
    /\ UNCHANGED <<games, players, now, selectedVotes, timerGame, shown,
                   lobby, card, loop, last>>

RemovePlayerArrives(p) ==
    /\ p \in removals
    /\ RemovePlayer(p)
    /\ removals' = removals \ {p}
    /\ UNCHANGED <<selectedVotes, timerGame, shown, lobby, card, loop>>

(***************************************************************************)
(* The lobby screen (part_000): the selectedCategories state, and where    *)
(* handleStartGame stands: "idle", or "written" once its                   *)
(* updateSelectedCategories has returned and its startGame has not yet     *)
(* been called.  found is the selection the game had when the handler      *)
(* began.                                                                  *)
(***************************************************************************)
NoLobby == [pc |-> "idle", selectedCategories |-> <<>>, found |-> <<>>]

\* handleCategoryToggle: remove the name if selected, else append it.
HandleCategoryToggle(categoryName) ==
    /\ lobby' = [lobby EXCEPT !.selectedCategories =
          IF categoryName \in Range(@)
          THEN SelectSeq(@, LAMBDA c : c # categoryName)
          ELSE Append(@, categoryName)]
    /\ UNCHANGED <<games, players, now, selectedVotes, timerGame, shown, last,
                 removals, card, loop>>

\* handleStartGame up to its first await: the selection is written.
HandleStartGameWrite(g) ==
    /\ lobby.pc = "idle"
    /\ ~(Len(lobby.selectedCategories) = 0)
    /\ UpdateSelectedCategories(g, lobby.selectedCategories)
    /\ lobby' = [lobby EXCEPT !.pc = "written",
                              !.found = games[g].selectedCategories]
    /\ UNCHANGED <<selectedVotes, timerGame, shown, removals, card, loop>>

\* handleStartGame after the first await: startGame; an error is caught and
\* shown in an alert.
HandleStartGameStart(g) ==
    /\ lobby.pc = "written"
    /\ StartGame(g)
    /\ lobby' = [lobby EXCEPT !.pc = "idle"]
    /\ UNCHANGED <<selectedVotes, timerGame, shown, removals, card, loop>>

(***************************************************************************)
(* The results view of the same screen, rendered when                      *)
(* showResults || game.status === "results".                               *)
(***************************************************************************)
ResultsShown(g) == ~VotingShown(g)

\* voteCounts[index]: the number of vote values equal to index.
VoteCount(votes, index) == Cardinality({p \in DOMAIN votes : votes[p] = index})

(***************************************************************************)
(* .sort((a, b) => b.votes - a.votes): votes descending; the sort is       *)
(* stable, so an entry goes behind every entry with as many votes that     *)
(* stood before it.                                                        *)
(***************************************************************************)
InsertByVotesBeforeTies(sorted, e) ==
    LET k == Cardinality({i \in 1..Len(sorted) : sorted[i].votes > e.votes})
    IN SubSeq(sorted, 1, k) \o <<e>> \o SubSeq(sorted, k + 1, Len(sorted))

InsertByVotes(sorted, e) ==
    LET k == Cardinality({i \in 1..Len(sorted) : sorted[i].votes >= e.votes})
    IN SubSeq(sorted, 1, k) \o <<e>> \o SubSeq(sorted, k + 1, Len(sorted))

SortByVotesFromEnd(entries) ==
    LET F[i \in 0..Len(entries)] ==
            IF i = 0 THEN <<>>
            ELSE InsertByVotes(F[i - 1], entries[Len(entries) - i + 1])
    IN F[Len(entries)]

SortByVotes(entries) ==
    LET F[i \in 0..Len(entries)] ==
            IF i = 0 THEN <<>> ELSE InsertByVotes(F[i - 1], entries[i])
    IN F[Len(entries)]

(***************************************************************************)
(* getVoteResults: one entry per player of the getPlayers list; the entry  *)
(* of the player at position index counts the votes for index.             *)
(***************************************************************************)
getVoteResults(g) ==
    IF games[g].votes = None THEN <<>>
    ELSE LET list == getPlayers(g)
             votes == games[g].votes[1]
         IN SortByVotes(
              [i \in 1..Len(list) |->
                 [player |-> list[i],
                  votes |-> VoteCount(votes, i - 1),
                  isImposter |-> (i - 1) \in Range(games[g].imposters)]])

\* impostersFound === totalImposters
AllFoundIfAny(impostersFound, totalImposters) == impostersFound >= 1
AllFound(impostersFound, totalImposters) == impostersFound = totalImposters

(***************************************************************************)
(* getGameOutcome: null without a first entry; the three messages are      *)
(* named by their first words.                                             *)
(***************************************************************************)
getGameOutcome(g) ==
    LET results == getVoteResults(g)
    IN IF Len(results) = 0 THEN None
       ELSE LET mostVotedPlayer == results[1]
                impostersFound ==
                    Cardinality({i \in 1..Len(results) :
                                   results[i].isImposter /\ results[i].votes > 0})
                totalImposters == Len(games[g].imposters)
            IN IF mostVotedPlayer.isImposter
               THEN Some([success |-> AllFound(impostersFound, totalImposters),
                          message |->
                             IF AllFound(impostersFound, totalImposters)
                             THEN "Gefeliciteerd" ELSE "Goed gedaan"])
               ELSE Some([success |-> FALSE,
                          message |-> "De imposters hebben gewonnen"])

RenderResults(g) ==
    /\ ResultsShown(g)
    /\ shown' = Some([results |-> getVoteResults(g),
                      outcome |-> getGameOutcome(g)])
    /\ UNCHANGED <<games, players, now, selectedVotes, timerGame, lobby, last,
                 removals, card, loop>>

\* handleNewGame: resetToLobby, then router.replace("/") leaves the screen.
HandleNewGame(g) ==
    /\ ResultsShown(g)
    /\ ResetToLobby(g)
    /\ selectedVotes' = NoVotes
    /\ shown' = None
    /\ UNCHANGED <<timerGame, lobby, removals, card, loop>>

(***************************************************************************)
(* The game screen (part_002).  The timer effect captures the game of the  *)
(* render it ran in; it runs again only when one of its dependencies       *)
(* [timerStartTime, timerEnabled, timerDuration] has changed, so the       *)
(* status the interval callback reads is the one of the captured game.     *)
(***************************************************************************)
TimerDeps(captured) ==
    IF captured = None THEN <<None, None, None>>
    ELSE <<captured[1].timerStartTime,
           Some(captured[1].settings.timerEnabled),
           Some(captured[1].settings.timerDuration)>>

\* useQuery delivers the document of the game and the effect runs again.
TimerEffect(g) ==
    /\ g \in 1..Len(games)
    /\ TimerDeps(Some(games[g])) # TimerDeps(timerGame)
    /\ timerGame' = Some(games[g])
    /\ UNCHANGED <<games, players, now, selectedVotes, shown, lobby, last,
                 removals, card, loop>>

\* The effect starts an interval unless the timer is off or has no anchor.
IntervalRunning ==
    /\ timerGame # None
    /\ timerGame[1].settings.timerEnabled
    /\ timerGame[1].timerStartTime # None

\* Math.max(0, game.settings.timerDuration - elapsed), in seconds.
TimeRemainingUnclamped(game, t) ==
    game.settings.timerDuration - (t - game.timerStartTime[1])

TimeRemainingAbsolute(game, t) ==
    LET d == game.settings.timerDuration - (t - game.timerStartTime[1])
    IN IF d < 0 THEN 0 - d ELSE d

TimeRemaining(game, t) ==
    Max(0, game.settings.timerDuration - (t - game.timerStartTime[1]))

\* The interval callback at remaining === 0 with the captured game in
\* playing; otherwise it only updates the displayed time.
TimerInterval(g) ==
    /\ IntervalRunning
    /\ TimeRemaining(timerGame[1], now) = 0
    /\ timerGame[1].status = "playing"
    /\ NextPlayer(g)
    /\ UNCHANGED client

\* handleCardFlipped and handleCardUnflipped: the card is part of every view
\* but the discussion view.
HandleCardFlipped(g) ==
    /\ g \in 1..Len(games)
    /\ games[g].status # "discussion"
    /\ card' = [cardWasFlipped |-> TRUE, cardIsCurrentlyFlipped |-> TRUE,
                flippedAt |-> Some(games[g].currentPlayerIndex)]
    /\ UNCHANGED <<games, players, now, selectedVotes, timerGame, shown,
                   lobby, removals, loop, last>>

HandleCardUnflipped(g) ==
    /\ g \in 1..Len(games)
    /\ games[g].status # "discussion"
    /\ card.cardIsCurrentlyFlipped
    /\ card' = [card EXCEPT !.cardIsCurrentlyFlipped = FALSE]
    /\ UNCHANGED <<games, players, now, selectedVotes, timerGame, shown,
                   lobby, removals, loop, last>>

\* handleNextPlayer: returns unless the card was flipped and is released;
\* nextPlayer, then setCardWasFlipped(false).  The button is part of every
\* view but the discussion view.
HandleNextPlayer(g) ==
    /\ g \in 1..Len(games)
    /\ games[g].status # "discussion"
    /\ ~(~card.cardWasFlipped)
    /\ ~card.cardIsCurrentlyFlipped
    /\ NextPlayer(g)
    /\ card' = [card EXCEPT !.cardWasFlipped = FALSE]
    /\ UNCHANGED <<selectedVotes, timerGame, shown, lobby, removals, loop>>

(***************************************************************************)
(* SpecRoster: two games and the roster mutations on them.                 *)
(***************************************************************************)
InitRoster ==
    /\ games = <<NewGame("AAAAAA", DefaultSettings),
                 NewGame("BBBBBB", DefaultSettings)>>
    /\ players = <<>>
    /\ now = 0
    /\ selectedVotes = NoVotes
    /\ timerGame = None
    /\ shown = None
    /\ lobby = NoLobby
    /\ removals = {}
    /\ card = NoCard
    /\ loop = NoLoop
    /\ last = NoCall

NextRoster ==
    \/ \E g \in 1..Len(games) :
          AddPlayer(g, "Speler", "#FF6B6B") /\ UNCHANGED client
    \/ \E p \in 1..(Len(players) + 1) :
          RemovePlayer(p) /\ UNCHANGED client

SpecRoster == InitRoster /\ [][NextRoster]_vars

(***************************************************************************)
(* Inputs of the lifecycle specification.                                  *)
(***************************************************************************)
TimerSettings ==
    {[DefaultSettings EXCEPT !.timerEnabled = t] : t \in BOOLEAN}

ImposterSettings ==
    {[DefaultSettings EXCEPT !.numberOfImposters = k] : k \in 1..MaxImposters}

\* Vote mappings that cover every active player of the game or all but one,
\* each voter accusing roster index 0.
VoteInputs(g) ==
    LET active == Range(ActiveByGame(players, g))
    IN {[p \in active \ S |-> 0] : S \in {{}} \cup {{q} : q \in active}}

(***************************************************************************)
(* Spec: one game with 2..MaxPlayers players and the game mutations.       *)
(***************************************************************************)
Init ==
    /\ \E s \in TimerSettings : games = <<NewGame("AAAAAA", s)>>
    /\ \E k \in 2..MaxPlayers : players = Roster(1, k)
    /\ now = 0
    /\ selectedVotes = NoVotes
    /\ timerGame = None
    /\ shown = None
    /\ lobby = NoLobby
    /\ removals = {}
    /\ card = NoCard
    /\ loop = NoLoop
    /\ last = NoCall

Next ==
    \/ \E g \in 1..Len(games), c \in CategoryInputs :
          UpdateSelectedCategories(g, c) /\ UNCHANGED client
    \/ \E g \in 1..Len(games) :
          StartGame(g) /\ UNCHANGED client
    \/ \E g \in 1..Len(games) :
          NextPlayer(g) /\ UNCHANGED client
    \/ \E g \in 1..Len(games) : \E v \in VoteInputs(g) :
          SubmitVotes(g, v) /\ UNCHANGED client
    \/ \E g \in 1..Len(games) : EndGame(g) /\ UNCHANGED client
    \/ \E g \in 1..Len(games) : ResetToLobby(g) /\ UNCHANGED client
    \/ Tick

Spec == Init /\ [][Next]_vars

(***************************************************************************)
(* SpecSetup: round setup over rosters and imposter settings.              *)
(***************************************************************************)
InitSetup ==
    /\ games = <<NewGame("AAAAAA", DefaultSettings)>>
    /\ players = <<>>
    /\ now = 0
    /\ selectedVotes = NoVotes
    /\ timerGame = None
    /\ shown = None
    /\ lobby = NoLobby
    /\ removals = {}
    /\ card = NoCard
    /\ loop = NoLoop
    /\ last = NoCall

NextSetup ==
    \/ \E g \in 1..Len(games) :
          AddPlayer(g, "Speler", "#FF6B6B") /\ UNCHANGED client
    \/ \E g \in 1..Len(games), s \in ImposterSettings :
          UpdateGameSettings(g, s) /\ UNCHANGED client
    \/ \E g \in 1..Len(games), c \in CategoryInputs :
          UpdateSelectedCategories(g, c) /\ UNCHANGED client
    \/ \E g \in 1..(Len(games) + 1) :
          StartGame(g) /\ UNCHANGED client
    \/ \E g \in 1..Len(games) : ResetToLobby(g) /\ UNCHANGED client

SpecSetup == InitSetup /\ [][NextSetup]_vars

(***************************************************************************)
(* SpecVoting: the voting screen of a game in discussion, with the lobby   *)
(* screen's roster handlers still in reach of another device.  The game is *)
(* the one Spec reaches by updateSelectedCategories, startGame and three   *)
(* nextPlayer calls on three players.                                      *)
(***************************************************************************)
DiscussionGame ==
    [NewGame("AAAAAA", DefaultSettings) EXCEPT
        !.status = "discussion",
        !.currentPlayerIndex = 2,
        !.selectedCategories = <<"animals">>,
        !.currentWord = Some("cat"),
        !.hintWord = Some("pet"),
        !.imposters = <<0>>,
        !.timerStartTime = Some(0)]

InitVoting ==
    /\ games = <<DiscussionGame>>
    /\ players = Roster(1, 3)
    /\ now = 0
    /\ selectedVotes = NoVotes
    /\ timerGame = None
    /\ shown = None
    /\ lobby = NoLobby
    /\ removals = {}
    /\ card = NoCard
    /\ loop = NoLoop
    /\ last = NoCall

NextVoting ==
    \/ \E g \in 1..Len(games) :
          \E voter \in Range(getPlayers(g)) :
            \E candidateIndex \in 0..(Len(getPlayers(g)) - 1) :
              HandleVote(g, voter, candidateIndex)
    \/ \E g \in 1..Len(games) : HandleSubmitVotes(g)
    \/ \E g \in 1..Len(games) : HandleAddPlayer(g)
    \/ \E g \in 1..Len(games) : \E p \in 1..Len(players) :
          HandleRemovePlayer(g, p)

SpecVoting == InitVoting /\ [][NextVoting]_vars

(***************************************************************************)
(* SpecResults: the results view of a game in results.  The game is one    *)
(* Spec reaches by updateSelectedCategories, startGame, nextPlayer and     *)
(* submitVotes with the mapping the voting view assembles: every active    *)
(* player accuses a position of the list.  The order of the imposters      *)
(* array has no part in the tally; one order per set is drawn.             *)
(***************************************************************************)
\* The imposter arrays of n players, for every numberOfImposters setting,
\* that the loop of startGame filled in ascending order.
ImposterInputs(n) ==
    { a \in UNION { ImposterLoop(<<>>, n, ImposterTarget(k, n)) :
                       k \in 1..MaxImposters } :
        \A i \in 1..(Len(a) - 1) : a[i] < a[i + 1] }

ResultsGame(n, imposterIndices, votes) ==
    [NewGame("AAAAAA", DefaultSettings) EXCEPT
        !.status = "results",
        !.currentPlayerIndex = n - 1,
        !.selectedCategories = <<"animals">>,
        !.currentWord = Some("cat"),
        !.hintWord = Some("pet"),
        !.imposters = imposterIndices,
        !.timerStartTime = Some(0),
        !.votes = Some(votes)]

InitResults ==
    /\ \E n \in 3..MaxPlayers :
          /\ players = Roster(1, n)
          /\ \E imposterIndices \in ImposterInputs(n) :
             \E votes \in [1..n -> 0..(n - 1)] :
                games = <<ResultsGame(n, imposterIndices, votes)>>
    /\ now = 0
    /\ selectedVotes = NoVotes
    /\ timerGame = None
    /\ shown = None
    /\ lobby = NoLobby
    /\ removals = {}
    /\ card = NoCard
    /\ loop = NoLoop
    /\ last = NoCall

NextResults ==
    \/ \E g \in 1..Len(games) : RenderResults(g)
    \/ \E g \in 1..Len(games) : HandleNewGame(g)

SpecResults == InitResults /\ [][NextResults]_vars

(***************************************************************************)
(* SpecTally: the results view of a game in results whose stored mapping   *)
(* accuses nobody of the list: submitVotes stores any mapping, here one    *)
(* of some of the players, each accusing the position behind the list.     *)
(***************************************************************************)
NobodyVotes(n) ==
    UNION { [S -> {n}] : S \in SUBSET (1..n) }

InitTally ==
    /\ \E n \in 3..MaxPlayers :
          /\ players = Roster(1, n)
          /\ \E imposterIndices \in ImposterInputs(n) :
             \E votes \in NobodyVotes(n) :
                games = <<ResultsGame(n, imposterIndices, votes)>>
    /\ now = 0
    /\ selectedVotes = NoVotes
    /\ timerGame = None
    /\ shown = None
    /\ lobby = NoLobby
    /\ removals = {}
    /\ card = NoCard
    /\ loop = NoLoop
    /\ last = NoCall

SpecTally == InitTally /\ [][NextResults]_vars

(***************************************************************************)
(* SpecTimer: the game screen of a game that startGame has just moved to   *)
(* playing with the timer enabled, for 3..MaxPlayers players.  The clock   *)
(* runs one second past the expiry of the timer.                           *)
(***************************************************************************)
MaxClock == ShortTimerDuration + 1

PlayingGame ==
    [NewGame("AAAAAA",
             [DefaultSettings EXCEPT !.timerDuration = ShortTimerDuration])
     EXCEPT
        !.status = "playing",
        !.currentPlayerIndex = 0,
        !.selectedCategories = <<"animals">>,
        !.currentWord = Some("cat"),
        !.hintWord = Some("pet"),
        !.imposters = <<0>>,
        !.timerStartTime = Some(0)]

InitTimer ==
    /\ games = <<PlayingGame>>
    /\ \E n \in 3..MaxPlayers : players = Roster(1, n)
    /\ now = 0
    /\ selectedVotes = NoVotes
    /\ timerGame = None
    /\ shown = None
    /\ lobby = NoLobby
    /\ removals = {}
    /\ card = NoCard
    /\ loop = NoLoop
    /\ last = NoCall

NextTimer ==
    \/ \E g \in 1..Len(games) : TimerEffect(g)
    \/ \E g \in 1..Len(games) : TimerInterval(g)
    \/ \E g \in 1..Len(games) : HandleNextPlayer(g)
    \/ \E g \in 1..Len(games) : HandleCardFlipped(g)
    \/ \E g \in 1..Len(games) : HandleCardUnflipped(g)
    \/ TickUpTo(MaxClock)

SpecTimer == InitTimer /\ [][NextTimer]_vars

(***************************************************************************)
(* SpecTimerLive: the same, with the clock advancing, the subscription     *)
(* delivering and the interval firing; nobody is bound to press next.      *)
(***************************************************************************)
SpecTimerLive ==
    /\ SpecTimer
    /\ WF_vars(TickUpTo(MaxClock))
    /\ WF_vars(TimerEffect(1))
    /\ WF_vars(TimerInterval(1))

(***************************************************************************)
(* SpecExpiry: the game screen of the same game with nobody pressing next: *)
(* every nextPlayer call is one of the interval callback.                  *)
(***************************************************************************)
NextExpiry ==
    \/ \E g \in 1..Len(games) : TimerEffect(g)
    \/ \E g \in 1..Len(games) : TimerInterval(g)
    \/ \E g \in 1..Len(games) : HandleCardFlipped(g)
    \/ \E g \in 1..Len(games) : HandleCardUnflipped(g)
    \/ TickUpTo(MaxClock)

SpecExpiry == InitTimer /\ [][NextExpiry]_vars

(***************************************************************************)
(* SpecLoop: a startGame call in its imposter loop, one draw per step, for *)
(* 3..MaxPlayers players and numberOfImposters 1..MaxImposters.            *)
(* randomIndex is the last index drawn.                                    *)
(***************************************************************************)
\* while (imposterIndices.length < numberOfImposters)
LoopRunning(numberOfImposters, imposterIndices) ==
    Len(imposterIndices) < numberOfImposters

\* One pass of the loop body with the inverted test.
DrawIfIncluded(randomIndex) ==
    /\ loop.running
    /\ randomIndex \in 0..(loop.n - 1)
    /\ LET pushed == IF ~(randomIndex \notin Range(loop.imposterIndices))
                     THEN Append(loop.imposterIndices, randomIndex)
                     ELSE loop.imposterIndices
       IN loop' = [loop EXCEPT
             !.imposterIndices = pushed,
             !.randomIndex = Some(randomIndex),
             !.running = LoopRunning(loop.numberOfImposters, pushed)]
    /\ UNCHANGED <<games, players, now, selectedVotes, timerGame, shown,
                   lobby, removals, card, last>>

\* One pass of the loop body: the index drawn is pushed unless the array
\* includes it.
Draw(randomIndex) ==
    /\ loop.running
    /\ randomIndex \in 0..(loop.n - 1)
    /\ LET pushed == IF ~(randomIndex \in Range(loop.imposterIndices))
                     THEN Append(loop.imposterIndices, randomIndex)
                     ELSE loop.imposterIndices
       IN loop' = [loop EXCEPT
             !.imposterIndices = pushed,
             !.randomIndex = Some(randomIndex),
             !.running = LoopRunning(loop.numberOfImposters, pushed)]
    /\ UNCHANGED <<games, players, now, selectedVotes, timerGame, shown,
                   lobby, removals, card, last>>

\* The patch of startGame behind the loop, with the array the loop filled.
LoopExit(g) ==
    /\ g \in 1..Len(games)
    /\ loop.n > 0
    /\ ~loop.running
    /\ games[g].status = "lobby"
    /\ LET allWords == AllWords(games[g].selectedCategories)
       IN \E r \in 1..Len(allWords) :
            games' = [games EXCEPT
               ![g].status = "playing",
               ![g].currentPlayerIndex = 0,
               ![g].currentWord = Some(allWords[r].word),
               ![g].hintWord = Some(allWords[r].hint),
               ![g].imposters = loop.imposterIndices,
               ![g].timerStartTime =
                   IF games[g].settings.timerEnabled THEN Some(now)
                   ELSE None]
    /\ Called("startGame", g, "")
    /\ UNCHANGED <<players, now, client>>

InitLoop ==
    /\ \E n \in 3..MaxPlayers, s \in ImposterSettings :
          /\ games = <<[NewGame("AAAAAA", s) EXCEPT
                          !.selectedCategories = <<"animals">>]>>
          /\ players = Roster(1, n)
          /\ loop = [running |->
                        LoopRunning(ImposterTarget(s.numberOfImposters, n),
                                    <<>>),
                     n |-> n,
                     numberOfImposters |->
                        ImposterTarget(s.numberOfImposters, n),
                     imposterIndices |-> <<>>,
                     randomIndex |-> None]
    /\ now = 0
    /\ selectedVotes = NoVotes
    /\ timerGame = None
    /\ shown = None
    /\ lobby = NoLobby
    /\ removals = {}
    /\ card = NoCard
    /\ last = NoCall

NextLoop ==
    \/ \E randomIndex \in 0..(MaxPlayers - 1) : Draw(randomIndex)
    \/ \E g \in 1..Len(games) : LoopExit(g)

SpecLoop == InitLoop /\ [][NextLoop]_vars

\* Math.random() yields every index again and again.
SpecLoopLive ==
    /\ SpecLoop
    /\ \A randomIndex \in 0..(MaxPlayers - 1) : WF_vars(Draw(randomIndex))

(***************************************************************************)
(* SpecRound: a round with the roster and settings mutations in reach      *)
(* while it runs.  The game is the one createGame and                      *)
(* updateSelectedCategories leave in the lobby.                            *)
(***************************************************************************)
LobbyGame ==
    [NewGame("AAAAAA", DefaultSettings) EXCEPT
        !.selectedCategories = <<"animals">>]

InitRound ==
    /\ games = <<LobbyGame>>
    /\ players = <<>>
    /\ now = 0
    /\ selectedVotes = NoVotes
    /\ timerGame = None
    /\ shown = None
    /\ lobby = NoLobby
    /\ removals = {}
    /\ card = NoCard
    /\ loop = NoLoop
    /\ last = NoCall

NextRound ==
    \/ \E g \in 1..Len(games) :
          AddPlayer(g, "Speler", "#FF6B6B") /\ UNCHANGED client
    \/ \E p \in 1..Len(players) : RemovePlayer(p) /\ UNCHANGED client
    \/ \E g \in 1..Len(games), s \in TimerSettings :
          UpdateGameSettings(g, s) /\ UNCHANGED client
    \/ \E g \in 1..Len(games) : StartGame(g) /\ UNCHANGED client
    \/ \E g \in 1..Len(games) : NextPlayer(g) /\ UNCHANGED client
    \/ \E g \in 1..Len(games) : ResetToLobby(g) /\ UNCHANGED client

SpecRound == InitRound /\ [][NextRound]_vars

(***************************************************************************)
(* SpecGames: two games side by side.  Game 1 is a bystander in one of the *)
(* states BystanderInputs, each reached by mutations on game 1 alone; the  *)
(* mutations taken from there are createGame and every mutation on the     *)
(* game it creates and on that game's players, in the statuses in which    *)
(* the screens call them.                                                  *)
(***************************************************************************)
GameCodes == <<"AAAAAA", "BBBBBB">>

RoundSettings ==
    {[DefaultSettings EXCEPT !.wordsPerRound = w] : w \in {5, 10}}

\* handleUpdatePlayer supplies a name and no color.
NameInputs == {None, Some("Anna")}

ColorInputs == {None}

\* Every active player of the game accuses position 0.
FullVotes(g) == [p \in Range(ActiveByGame(players, g)) |-> 0]

\* createGame and addPlayer; then submitVotes; or two more addPlayer,
\* updateSelectedCategories, startGame and nextPlayer.
BystanderInputs ==
    { [games |-> <<NewGame(GameCodes[1], DefaultSettings)>>,
       players |-> Roster(1, 1)],
      [games |-> <<[NewGame(GameCodes[1], DefaultSettings) EXCEPT
                       !.status = "results",
                       !.votes = Some([p \in {1} |-> 0])]>>,
       players |-> Roster(1, 1)],
      [games |-> <<[NewGame(GameCodes[1], DefaultSettings) EXCEPT
                       !.status = "playing",
                       !.currentPlayerIndex = 1,
                       !.selectedCategories = <<"animals">>,
                       !.currentWord = Some("dog"),
                       !.hintWord = Some("bark"),
                       !.imposters = <<2>>,
                       !.timerStartTime = Some(0)]>>,
       players |-> Roster(1, 3)] }

InitGames ==
    /\ \E b \in BystanderInputs : games = b.games /\ players = b.players
    /\ now = 0
    /\ selectedVotes = NoVotes
    /\ timerGame = None
    /\ shown = None
    /\ lobby = NoLobby
    /\ removals = {}
    /\ card = NoCard
    /\ loop = NoLoop
    /\ last = NoCall

\* The games created since, and their players.
NewGames == 2..Len(games)

NewPlayers == {p \in 1..Len(players) : players[p].gameId \in NewGames}

InStatus(g, statuses) == games[g].status \in statuses

\* The callers follow the screens: the roster, the settings and the
\* categories are edited and the game is started in the lobby, nextPlayer is
\* called in playing, submitVotes in discussion, resetToLobby when leaving
\* the game or the results screen.
NextGames ==
    \/ \E s \in RoundSettings :
          /\ Len(games) < Len(GameCodes)
          /\ CreateGame(GameCodes[Len(games) + 1], s)
          /\ UNCHANGED client
    \/ \E g \in NewGames, s \in RoundSettings :
          /\ InStatus(g, {"lobby"})
          /\ UpdateGameSettings(g, s) /\ UNCHANGED client
    \/ \E g \in NewGames :
          /\ InStatus(g, {"lobby"})
          /\ UpdateSelectedCategories(g, <<"animals">>) /\ UNCHANGED client
    \/ \E g \in NewGames :
          /\ InStatus(g, {"lobby"})
          /\ StartGame(g) /\ UNCHANGED client
    \/ \E g \in NewGames :
          /\ InStatus(g, {"playing"})
          /\ NextPlayer(g) /\ UNCHANGED client
    \/ \E g \in NewGames :
          /\ InStatus(g, {"discussion"})
          /\ SubmitVotes(g, FullVotes(g)) /\ UNCHANGED client
    \/ \E g \in NewGames :
          /\ InStatus(g, {"results"})
          /\ EndGame(g) /\ UNCHANGED client
    \/ \E g \in NewGames :
          /\ InStatus(g, {"playing", "discussion", "results", "ended"})
          /\ ResetToLobby(g) /\ UNCHANGED client
    \/ \E g \in NewGames :
          /\ InStatus(g, {"lobby"})
          /\ AddPlayer(g, "Speler", "#FF6B6B") /\ UNCHANGED client
    \/ \E p \in NewPlayers, name \in NameInputs, color \in ColorInputs :
          /\ InStatus(players[p].gameId, {"lobby"})
          /\ UpdatePlayer(p, name, color) /\ UNCHANGED client
    \/ \E p \in NewPlayers :
          /\ InStatus(players[p].gameId, {"lobby"})
          /\ RemovePlayer(p) /\ UNCHANGED client

SpecGames == InitGames /\ [][NextGames]_vars

(***************************************************************************)
(* SpecLobby: the lobby screen of one game with three or four players,     *)
(* with the calls of a second client of the same game.                     *)
(***************************************************************************)
InitLobby ==
    /\ games = <<LobbyGame>>
    /\ \E k \in 3..MaxPlayers : players = Roster(1, k)
    /\ now = 0
    /\ selectedVotes = NoVotes
    /\ timerGame = None
    /\ shown = None
    /\ lobby = NoLobby
    /\ removals = {}
    /\ card = NoCard
    /\ loop = NoLoop
    /\ last = NoCall

\* The lobby is left for the game screen once the game has started.
NextLobby ==
    \/ \E c \in {"animals", "blank"} :
          InStatus(1, {"lobby"}) /\ HandleCategoryToggle(c)
    \/ InStatus(1, {"lobby"}) /\ HandleStartGameWrite(1)
    \/ InStatus(1, {"lobby"}) /\ HandleStartGameStart(1)
    \/ /\ InStatus(1, {"lobby"})
       /\ ActiveCount(1) < MaxPlayers
       /\ HandleAddPlayer(1)
    \/ \E p \in 1..Len(players) :
          InStatus(1, {"lobby"}) /\ HandleRemovePlayer(1, p)
    \/ \E c \in CategoryInputs :
          /\ InStatus(1, {"lobby"})
          /\ UpdateSelectedCategories(1, c) /\ UNCHANGED client
    \/ \E p \in 1..Len(players) :
          /\ InStatus(1, {"lobby"})
          /\ players[p].isActive
          /\ RemovePlayer(p) /\ UNCHANGED client

SpecLobby == InitLobby /\ [][NextLobby]_vars

(***************************************************************************)
(* SpecRemoval: the lobby screens of the clients of one game with three    *)
(* or more players: players are added, and removed by handleRemovePlayer   *)
(* only, whose calls reach the backend in any order.                       *)
(***************************************************************************)
NextRemoval ==
    \/ HandleAddPlayer(1)
    \/ \E p \in 1..Len(players) : HandleRemovePlayerCall(1, p)
    \/ \E p \in 1..Len(players) : RemovePlayerArrives(p)
    \/ \E p \in 1..Len(players), name \in NameInputs, color \in ColorInputs :
          /\ players[p].isActive
          /\ UpdatePlayer(p, name, color) /\ UNCHANGED client

SpecRemoval == InitLobby /\ [][NextRemoval]_vars

(***************************************************************************)
(* Properties.                                                             *)
(***************************************************************************)
GameIds == 1..Len(games)

ActiveIds(g) == Range(ActiveByGame(players, g))

Distinct(seq) == Cardinality(Range(seq)) = Len(seq)

ActiveIndexSet(tbl, g) == {tbl[p].index : p \in Range(ActiveByGame(tbl, g))}

\* C1 (SpecRoster): after every sequence of addPlayer and removePlayer calls
\* the index values of the active players of each game are exactly
\* 0..n-1, n the number of active players, with no duplicate and no gap.
C1_RosterContiguity ==
    \A g \in GameIds :
        /\ ActiveIndexSet(players, g) = 0..(ActiveCount(g) - 1)
        /\ \A p, q \in ActiveIds(g) :
              players[p].index = players[q].index => p = q

\* C2 (Spec): every change of a game's status is an edge of the lifecycle
\* table: lobby -> playing by startGame, playing -> discussion by nextPlayer,
\* any -> results by submitVotes, any -> ended by endGame, and
\* results/ended -> lobby by resetToLobby.
C2_LifecycleEdges ==
    [][\A g \in GameIds :
         games'[g].status # games[g].status =>
           LET from == games[g].status
               to == games'[g].status
               op == last'.op
           IN \/ from = "lobby" /\ to = "playing" /\ op = "startGame"
              \/ from = "playing" /\ to = "discussion" /\ op = "nextPlayer"
              \/ to = "results" /\ op = "submitVotes"
              \/ to = "ended" /\ op = "endGame"
              \/ /\ from \in {"results", "ended"} /\ to = "lobby"
                 /\ op = "resetToLobby"]_vars

\* C3 (SpecSetup): right after a startGame that returned, with n active
\* players and numberOfImposters >= 1, the imposters array has exactly
\* min(numberOfImposters, n - 1) elements, at least one, pairwise distinct,
\* each in 0..n-1.
C3_ImposterSet ==
    \A g \in GameIds :
        ( /\ last.op = "startGame" /\ last.err = "" /\ last.game = g
          /\ games[g].settings.numberOfImposters >= 1 ) =>
            LET imp == games[g].imposters
                n == ActiveCount(g)
            IN /\ Len(imp) = Min(games[g].settings.numberOfImposters, n - 1)
               /\ Len(imp) >= 1
               /\ Distinct(imp)
               /\ \A i \in 1..Len(imp) : imp[i] \in 0..(n - 1)

\* C3 witness: a start with three active players and numberOfImposters = 3,
\* clamped to two imposters.
C3_Witness ==
    \E g \in GameIds :
        /\ last.op = "startGame" /\ last.err = "" /\ last.game = g
        /\ games[g].settings.numberOfImposters = 3
        /\ ActiveCount(g) = 3
        /\ Len(games[g].imposters) = 2

\* C4 (Spec): after a startGame that returned, followed by j nextPlayer
\* calls and no other call, with n active players: for j < n the status is
\* playing and currentPlayerIndex = j; from the n-th call on the status is
\* discussion.
C4_TurnOrder ==
    \A g \in GameIds :
        (last.game = g /\ last.streak >= 0) =>
            IF last.streak < ActiveCount(g)
            THEN /\ games[g].status = "playing"
                 /\ games[g].currentPlayerIndex = last.streak
            ELSE /\ games[g].status = "discussion"
                 /\ games[g].currentPlayerIndex = ActiveCount(g) - 1

\* C4 witness: the third nextPlayer call after a start with three players
\* has moved the game to discussion.
C4_Witness ==
    \E g \in GameIds :
        /\ last.game = g /\ last.op = "nextPlayer" /\ last.streak = 3
        /\ ActiveCount(g) = 3
        /\ games[g].status = "discussion"

\* C5 (Spec): a nextPlayer call on a game whose status is not playing fails
\* and leaves the game unchanged.
C5_AdvanceOutsidePlayingFails ==
    [][\A g \in GameIds :
         (NextPlayer(g) /\ games[g].status # "playing") =>
            (last'.err # "" /\ games' = games)]_vars

\* C6 (Spec): a startGame call on a game with fewer than 3 active players,
\* or no selected category, or no word in the selected categories, fails
\* and leaves the games and players tables unchanged.
C6_StartFailsUnchanged ==
    [][\A g \in GameIds :
         ( /\ last'.op = "startGame"
           /\ \/ ActiveCount(g) < 3
              \/ Len(games[g].selectedCategories) = 0
              \/ Len(AllWords(games[g].selectedCategories)) = 0
           /\ StartGame(g) ) =>
            (last'.err # "" /\ games' = games /\ players' = players)]_vars

\* C6 witness: a start in the lobby that failed on an empty word pool, with
\* enough players and a category selected.
C6_Witness ==
    \E g \in GameIds :
        /\ last.op = "startGame" /\ last.game = g /\ last.from = "lobby"
        /\ last.err = "No words found in selected categories"
        /\ ActiveCount(g) >= 3
        /\ games[g].selectedCategories # <<>>
        /\ games[g].status = "lobby"
        /\ games[g].currentWord = None

\* C7 (Spec): a startGame call on a game whose status is not lobby changes
\* none of currentWord, hintWord, imposters and currentPlayerIndex.
C7_SetupOnlyFromLobby ==
    [][\A g \in GameIds :
         (StartGame(g) /\ games[g].status # "lobby") =>
            /\ games'[g].currentWord = games[g].currentWord
            /\ games'[g].hintWord = games[g].hintWord
            /\ games'[g].imposters = games[g].imposters
            /\ games'[g].currentPlayerIndex = games[g].currentPlayerIndex]_vars

\* C8 (Spec): resetToLobby on a game in results or ended yields status
\* lobby, currentPlayerIndex 0, currentRound 1, no word, no hint, no
\* imposters, no timer anchor and no votes, and leaves gameCode, settings,
\* selectedCategories and every player record unchanged.
C8_ResetFrame ==
    [][\A g \in GameIds :
         (games[g].status \in {"results", "ended"} /\ ResetToLobby(g)) =>
            /\ games'[g].status = "lobby"
            /\ games'[g].currentPlayerIndex = 0
            /\ games'[g].currentRound = 1
            /\ games'[g].currentWord = None
            /\ games'[g].hintWord = None
            /\ games'[g].imposters = <<>>
            /\ games'[g].timerStartTime = None
            /\ games'[g].votes = None
            /\ games'[g].gameCode = games[g].gameCode
            /\ games'[g].settings = games[g].settings
            /\ games'[g].selectedCategories = games[g].selectedCategories
            /\ players' = players]_vars

\* C8 witness: a reset from results, with categories selected and a roster.
C8_Witness ==
    \E g \in GameIds :
        /\ last.op = "resetToLobby" /\ last.game = g
        /\ last.from = "results"
        /\ games[g].status = "lobby"
        /\ games[g].votes = None
        /\ games[g].selectedCategories # <<>>
        /\ ActiveCount(g) >= 3

\* C9 (Spec): a submitVotes call whose mapping lacks the id of an active
\* player fails, stores no votes and leaves the status unchanged.
C9_IncompleteVotesRejected ==
    [][\A g \in GameIds : \A v \in VoteInputs(g) :
         (SubmitVotes(g, v) /\ ~(ActiveIds(g) \subseteq DOMAIN v)) =>
            /\ last'.err # ""
            /\ games'[g].votes = games[g].votes
            /\ games'[g].status = games[g].status]_vars

\* C10 (SpecVoting): whenever votes are stored, their key set is exactly
\* the set of ids of the players active at that moment.
C10_VoteKeysAreActiveIds ==
    [][\A g \in GameIds :
         (games'[g].votes # games[g].votes /\ games'[g].votes # None) =>
            DOMAIN games'[g].votes[1] = ActiveIds(g)]_vars

\* The votes received by roster index i: the voters whose vote value is i.
VotesFor(g, i) ==
    Cardinality({p \in DOMAIN games[g].votes[1] : games[g].votes[1][p] = i})

ImpostersWithVotes(g) ==
    {i \in Range(games[g].imposters) : VotesFor(g, i) > 0}

\* C12 (SpecResults): the rendered outcome has success = TRUE exactly when
\* the first tally entry is an imposter and the number of imposters with
\* votes > 0 equals the number of imposters; a top accused imposter with
\* some imposter unvoted gives the partial message with success = FALSE, a
\* top accused who is no imposter gives the imposter victory message with
\* success = FALSE; every outcome carries exactly one of the three messages.
C12_Outcome ==
    \A g \in GameIds :
        shown # None =>
            LET top == shown[1].results[1]
                outcome == shown[1].outcome[1]
                allCaught == Cardinality(ImpostersWithVotes(g))
                                = Len(games[g].imposters)
            IN /\ shown[1].outcome # None
               /\ outcome.success = (top.isImposter /\ allCaught)
               /\ (outcome.message = "Gefeliciteerd")
                     = (top.isImposter /\ allCaught)
               /\ (outcome.message = "Goed gedaan")
                     = (top.isImposter /\ ~allCaught)
               /\ (outcome.message = "De imposters hebben gewonnen")
                     = (~top.isImposter)
               /\ outcome.message \in {"Gefeliciteerd", "Goed gedaan",
                                       "De imposters hebben gewonnen"}

\* C12 witness: a rendered partial success: the top accused is an imposter
\* and another imposter received no vote.
C12_Witness ==
    \E g \in GameIds :
        /\ shown # None
        /\ shown[1].outcome # None
        /\ shown[1].outcome[1].message = "Goed gedaan"
        /\ shown[1].outcome[1].success = FALSE
        /\ Len(games[g].imposters) = 2
        /\ Cardinality(ImpostersWithVotes(g)) = 1

\* C13 (SpecTimer): while the status of a game is discussion, no firing of
\* the timer interval of a game screen, whatever game it captured, changes
\* the game's status, currentPlayerIndex or timerStartTime.
C13_DiscussionExpiryAdvisory ==
    [][\A g \in GameIds :
         (games[g].status = "discussion" /\ TimerInterval(g)) =>
            /\ games'[g].status = games[g].status
            /\ games'[g].currentPlayerIndex = games[g].currentPlayerIndex
            /\ games'[g].timerStartTime = games[g].timerStartTime]_vars

\* C14 (SpecTimerLive): a game in playing with the timer enabled, watched
\* by a game screen whose interval keeps firing, is eventually in
\* discussion, whether or not anybody presses next.
C14_TimeoutForcesProgress ==
    (games[1].status = "playing" /\ games[1].settings.timerEnabled)
        ~> (games[1].status = "discussion")

\* C14 witness: the game reached discussion by a nextPlayer call made after
\* the countdown had reached 0, with every player but the first passed by
\* the timer.
C14_Witness ==
    /\ games[1].status = "discussion"
    /\ last.op = "nextPlayer" /\ last.from = "playing"
    /\ now >= ShortTimerDuration
    /\ games[1].timerStartTime = Some(now)
    /\ timerGame # None
    /\ timerGame[1].status = "playing"
    /\ timerGame[1].timerStartTime = Some(0)

\* C15 (SpecRound): in every reachable state with status playing,
\* currentPlayerIndex is in 0..activeCount-1, activeCount the number of
\* active players of the game.
C15_CurrentPlayerInRange ==
    \A g \in GameIds :
        games[g].status = "playing" =>
            games[g].currentPlayerIndex \in 0..(ActiveCount(g) - 1)

\* C16 (SpecRound): in every reachable state every element of imposters is
\* in 0..activeCount-1.
C16_ImpostersInRange ==
    \A g \in GameIds :
        \A i \in 1..Len(games[g].imposters) :
            games[g].imposters[i] \in 0..(ActiveCount(g) - 1)

\* C17 (SpecRound): in every reachable state with settings.timerEnabled
\* FALSE, timerStartTime is absent.
C17_NoAnchorWhenTimerOff ==
    \A g \in GameIds :
        ~games[g].settings.timerEnabled => games[g].timerStartTime = None

\* C18 (Spec): in every reachable state with status lobby, playing or
\* discussion the votes field is absent.
C18_VotesOnlyFromResults ==
    \A g \in GameIds :
        games[g].status \in {"lobby", "playing", "discussion"} =>
            games[g].votes = None

\* C19 (Spec): a submitVotes call on a game in the lobby with no word and
\* no imposters assigned fails and changes neither status nor votes.
C19_SubmitWithoutRoundFails ==
    [][\A g \in GameIds : \A v \in VoteInputs(g) :
         ( /\ games[g].status = "lobby"
           /\ games[g].currentWord = None
           /\ games[g].imposters = <<>>
           /\ SubmitVotes(g, v) ) =>
            /\ last'.err # ""
            /\ games'[g].status = games[g].status
            /\ games'[g].votes = games[g].votes]_vars

C21_ListingByIndex ==
    \A g \in GameIds :
        LET list == getPlayers(g)
        IN /\ Range(list) = {p \in 1..Len(players) :
                               players[p].gameId = g /\ players[p].isActive}
           /\ Distinct(list)
           /\ \A i, j \in 1..Len(list) :
                 i < j => players[list[i]].index < players[list[j]].index
           /\ \A i \in 1..Len(list) : players[list[i]].index = i - 1

\* C22 (SpecGames): updatePlayer on an inactive player fails and changes no
\* player record; on an active player it changes only the supplied fields
\* of that player and leaves its index, isActive and gameId and every
\* other player record unchanged.
C22_UpdatePlayerGuarded ==
    [][\A p \in 1..Len(players) : \A name \in NameInputs, color \in ColorInputs :
         (last'.op = "updatePlayer" /\ UpdatePlayer(p, name, color)) =>
            IF players[p].isActive
            THEN /\ last'.err = ""
                 /\ players'[p].name =
                       IF name = None THEN players[p].name ELSE name[1]
                 /\ players'[p].color =
                       IF color = None THEN players[p].color ELSE color[1]
                 /\ players'[p].index = players[p].index
                 /\ players'[p].isActive = players[p].isActive
                 /\ players'[p].gameId = players[p].gameId
                 /\ \A q \in 1..Len(players) : q # p => players'[q] = players[q]
            ELSE /\ last'.err # ""
                 /\ players' = players]_vars

\* C23 (SpecRoster): a removePlayer call with a player id that does not
\* exist fails with an error.
C23_AbsentIdFails ==
    [][\A p \in 1..(Len(players) + 1) :
         (p \notin 1..Len(players) /\ RemovePlayer(p)) => last'.err # ""]_vars

C25_StartAtomic ==
    [][/\ (lobby.pc = "written" /\ <<games, players>>' # <<games, players>>
            => last'.op = "startGame")
       /\ (lobby.pc = "written" /\ lobby'.pc = "idle" /\ last'.err # ""
            => games'[1].selectedCategories = lobby.found)]_vars

\* The captured game with another anchor and duration.
WithTimer(game, anchor, duration) ==
    [game EXCEPT !.timerStartTime = Some(anchor),
                 !.settings.timerDuration = duration]

\* C27 (SpecTimer): while the interval runs, for the captured game's
\* duration and for 300, for every anchor up to the clock and every reading
\* t of the clock from the anchor on: the remaining time is not negative, is
\* the duration at t = anchor, does not grow with t, and is 0 exactly when
\* t - anchor >= duration; with duration 300 it is 180 at anchor + 120 and 0
\* at anchor + 301.
C27_TimerDerivation ==
    IntervalRunning =>
        \A duration \in {timerGame[1].settings.timerDuration, 300} :
        \A anchor \in {timerGame[1].timerStartTime[1], now} :
            LET game == WithTimer(timerGame[1], anchor, duration)
            IN /\ TimeRemaining(game, anchor) = duration
               /\ duration = 300 => /\ TimeRemaining(game, anchor + 120) = 180
                                    /\ TimeRemaining(game, anchor + 301) = 0
               /\ \A t \in anchor..(anchor + duration + 2) :
                     /\ TimeRemaining(game, t) >= 0
                     /\ TimeRemaining(game, t + 1) <= TimeRemaining(game, t)
                     /\ TimeRemaining(game, t) = 0 <=> t - anchor >= duration

\* C27 witness: the interval runs on the game captured in playing and the
\* clock is past the end of the countdown, where the difference is negative
\* and the remaining time is 0.
C27_Witness ==
    /\ IntervalRunning
    /\ timerGame[1].status = "playing"
    /\ now - timerGame[1].timerStartTime[1] > timerGame[1].settings.timerDuration
    /\ TimeRemaining(timerGame[1], now) = 0

\* C28 (Spec): a nextPlayer call on a game in playing with
\* currentPlayerIndex + 1 below the number of active players adds 1 to
\* currentPlayerIndex and keeps status and timerStartTime; otherwise it sets
\* status discussion, keeps currentPlayerIndex and sets timerStartTime to the
\* clock when the timer is enabled and to none when it is not.  Either way
\* word, hint, imposters, votes, settings and the players table are kept.
C28_AdvanceTurnFrame ==
    [][\A g \in GameIds :
         ( /\ last'.op = "nextPlayer"
           /\ games[g].status = "playing"
           /\ NextPlayer(g) ) =>
            /\ IF games[g].currentPlayerIndex + 1 < ActiveCount(g)
               THEN /\ games'[g].currentPlayerIndex =
                          games[g].currentPlayerIndex + 1
                    /\ games'[g].status = games[g].status
                    /\ games'[g].timerStartTime = games[g].timerStartTime
               ELSE /\ games'[g].status = "discussion"
                    /\ games'[g].currentPlayerIndex =
                          games[g].currentPlayerIndex
                    /\ games'[g].timerStartTime =
                          IF games[g].settings.timerEnabled THEN Some(now)
                          ELSE None
            /\ games'[g].currentWord = games[g].currentWord
            /\ games'[g].hintWord = games[g].hintWord
            /\ games'[g].imposters = games[g].imposters
            /\ games'[g].votes = games[g].votes
            /\ games'[g].settings = games[g].settings
            /\ players' = players]_vars

\* C28 witness: with the timer enabled, the game was started at 0 and the
\* nextPlayer call of the last player at 1 moved it from playing to
\* discussion and set the anchor to 1.
C28_Witness ==
    \E g \in GameIds :
        /\ last.op = "nextPlayer" /\ last.game = g /\ last.err = ""
        /\ last.from = "playing"
        /\ last.streak = ActiveCount(g)
        /\ games[g].status = "discussion"
        /\ games[g].currentPlayerIndex = ActiveCount(g) - 1
        /\ games[g].settings.timerEnabled
        /\ now = 1
        /\ games[g].timerStartTime = Some(1)
        /\ games[g].currentWord # None

\* C29 (Spec): a startGame call that returned has set status playing and
\* currentPlayerIndex 0, has set timerStartTime to the clock exactly when the
\* timer is enabled, and has set currentWord and hintWord to the word and
\* the hint of one entry of the words of a category whose name is selected.
C29_StartSetsRound ==
    [][\A g \in GameIds :
         ( /\ last'.op = "startGame" /\ last'.err = ""
           /\ StartGame(g) ) =>
            /\ games'[g].status = "playing"
            /\ games'[g].currentPlayerIndex = 0
            /\ (games'[g].timerStartTime = Some(now))
                  <=> games[g].settings.timerEnabled
            /\ games'[g].currentWord # None /\ games'[g].hintWord # None
            /\ \E c \in 1..Len(Catalog) :
                  /\ Catalog[c].name \in Range(games'[g].selectedCategories)
                  /\ \E i \in 1..Len(Catalog[c].words) :
                        /\ Catalog[c].words[i].word = games'[g].currentWord[1]
                        /\ Catalog[c].words[i].hint = games'[g].hintWord[1]]_vars

\* C29 witness: a start from the lobby at 1 with the timer enabled drew the
\* second entry of the selected category.
C29_Witness ==
    \E g \in GameIds :
        /\ last.op = "startGame" /\ last.game = g /\ last.err = ""
        /\ last.from = "lobby"
        /\ games[g].status = "playing"
        /\ games[g].currentPlayerIndex = 0
        /\ games[g].settings.timerEnabled
        /\ now = 1
        /\ games[g].timerStartTime = Some(1)
        /\ games[g].selectedCategories = <<"animals">>
        /\ games[g].currentWord = Some("dog")
        /\ games[g].hintWord = Some("bark")

\* C30 (Spec): a startGame call on a game with fewer than 3 active players
\* and no selected category fails with an error that names both conditions:
\* it is neither the message of the player count alone nor the message of
\* the categories alone.
C30_StartReportsAllViolations ==
    [][\A g \in GameIds :
         ( /\ last'.op = "startGame"
           /\ ActiveCount(g) < 3
           /\ Len(games[g].selectedCategories) = 0
           /\ StartGame(g) ) =>
            /\ last'.err # ""
            /\ last'.err # "Need at least 3 players to start"
            /\ last'.err # "Select at least one category"]_vars

C33_RoundSetUp ==
    \A g \in GameIds :
        games[g].status \in {"playing", "discussion"} =>
            /\ games[g].currentWord # None
            /\ games[g].hintWord # None
            /\ games[g].settings.numberOfImposters >= 1
                  => games[g].imposters # <<>>

\* C34 (SpecRemoval): with players removed by handleRemovePlayer only, in
\* every reachable state the game has at least 3 active players.
C34_AtLeastThreePlayers ==
    \A g \in GameIds : ActiveCount(g) >= 3

\* C35 (SpecTimer): handleNextPlayer calls nextPlayer on a game in playing
\* only when the card was flipped while the game had its present
\* currentPlayerIndex, and is released.
C35_AdvanceAfterOwnFlip ==
    [][\A g \in GameIds :
         ( /\ last'.op = "nextPlayer"
           /\ games[g].status = "playing"
           /\ HandleNextPlayer(g) ) =>
            /\ card.flippedAt = Some(games[g].currentPlayerIndex)
            /\ ~card.cardIsCurrentlyFlipped]_vars

\* C36 (SpecExpiry): while timerStartTime is the anchor startGame set, the
\* nextPlayer calls of the interval callback have added at most 1 to the
\* currentPlayerIndex startGame set.
C36_ExpiryAdvancesOnce ==
    \A g \in GameIds :
        games[g].timerStartTime = PlayingGame.timerStartTime =>
            games[g].currentPlayerIndex <= PlayingGame.currentPlayerIndex + 1

\* C37 (SpecTimer): once the status of a game is discussion, no step other
\* than a resetToLobby or a startGame changes its timerStartTime.
C37_DiscussionAnchoredOnce ==
    [][\A g \in GameIds :
         ( /\ games[g].status = "discussion"
           /\ last'.op \notin {"resetToLobby", "startGame"} ) =>
            games'[g].timerStartTime = games[g].timerStartTime]_vars

\* The sum of the votes of the entries of the tally of game g.
TallySum(g) ==
    LET results == getVoteResults(g)
        F[i \in 0..Len(results)] ==
            IF i = 0 THEN 0 ELSE F[i - 1] + results[i].votes
    IN F[Len(results)]

\* C38 (SpecVoting): whenever votes are stored, every vote value is a
\* position 0..activeCount-1 of the list the tally is made of, and the
\* votes of the tally entries add up to the number of stored votes.
C38_VotesWithinRoster ==
    \A g \in GameIds :
        games[g].votes # None =>
            /\ \A p \in DOMAIN games[g].votes[1] :
                  games[g].votes[1][p] \in 0..(ActiveCount(g) - 1)
            /\ TallySum(g) = Cardinality(DOMAIN games[g].votes[1])

\* C39 (SpecLoopLive): with every index drawn again and again, the
\* imposter loop of startGame ends, for 3..MaxPlayers players and every
\* numberOfImposters setting; while it runs its target is below the number
\* of players and some index is not yet in the array.
C39_ImposterLoopTerminates ==
    /\ [](loop.running =>
            /\ loop.numberOfImposters < loop.n
            /\ \E i \in 0..(loop.n - 1) : i \notin Range(loop.imposterIndices))
    /\ loop.running ~> ~loop.running

\* C39 witness: the loop has ended with MaxImposters indices of MaxPlayers
\* players, one of the arrays of ImposterLoop, its last draw pushed, and
\* the game has been started with it.
C39_Witness ==
    /\ ~loop.running
    /\ loop.n = MaxPlayers
    /\ Len(loop.imposterIndices) = MaxImposters
    /\ loop.imposterIndices \in ImposterLoop(<<>>, loop.n, MaxImposters)
    /\ loop.randomIndex = Some(loop.imposterIndices[MaxImposters])
    /\ games[1].status = "playing"
    /\ games[1].imposters = loop.imposterIndices

====
